---- MODULE Spec2Model ----
(***************************************************************************)
(* A model of libwyag.py: the kvlm codec, the tree-entry codec, the object *)
(* store, the reference resolver and the index parser.                     *)
(*                                                                         *)
(* Byte strings and text strings are sequences of byte values (integers).  *)
(* Positions are Python's: 0-based, with At, find and Slice following the  *)
(* semantics of bytes.__getitem__, bytes.find and slicing.                 *)
(***************************************************************************)
EXTENDS Integers, Sequences, FiniteSets, TLC

VARIABLES
    objects,   \* .git/objects: bucket (2 chars) -> file name (38 chars) -> file bytes
    refs,      \* the reference files under .git: path -> file text
    call,      \* the last operation called on the repository and its arguments
    ret,       \* what that call returned or raised
    hist,      \* history: each object written with persistence, with the hash returned
    kv,        \* kvlm codec run: raw input, parsed mapping, serialization, re-parse
    te,        \* tree-entry codec run: raw entry, parsed leaf, serialization
    rr,        \* ref_resolve run over an arbitrary set of reference files
    ix         \* index parser run: raw file and the parsed GitIndex

vars == <<objects, refs, call, ret, hist, kv, te, rr, ix>>

----------------------------------------------------------------------------
(* Bounds of the model *)

MaxHeaders == 2
MaxBlobLen == 1
MaxObjects == 2
MaxZeroBytes == 2
MaxCount == 2
MaxNameLen == 3
RecursionLimit == 5

----------------------------------------------------------------------------
(* Byte values the source names in literals *)

SP == 32
NL == 10
NUL == 0

ChA == 97
ChB == 98
ChM == 109

----------------------------------------------------------------------------
(* Python sequence primitives *)

\* F(v), the value v being computed once and then named: an assignment x = v
\* followed by the code that reads x
Bind(v, F(_)) == CHOOSE r \in {F(x) : x \in {v}} : TRUE

Min(S) == CHOOSE x \in S : \A y \in S : x <= y

Max(S) == CHOOSE x \in S : \A y \in S : x >= y

\* s[i] for 0 <= i < len(s), and s[i] counted from the end for -len(s) <= i < 0
At(s, i) == IF i < 0 THEN s[Len(s) + i + 1] ELSE s[i + 1]

InRange(s, i) == (-Len(s) <= i) /\ (i < Len(s))

\* s.find(b, start) for a single byte b and start >= 0
find(s, b, start) ==
    Bind({i \in start..(Len(s) - 1) : s[i + 1] = b},
         LAMBDA c : IF c = {} THEN -1 ELSE Min(c))

SliceBound(s, i) ==
    IF i < 0 THEN (IF Len(s) + i < 0 THEN 0 ELSE Len(s) + i)
             ELSE (IF i > Len(s) THEN Len(s) ELSE i)

\* s[a:b]
Slice(s, a, b) ==
    LET lo == SliceBound(s, a)
        hi == SliceBound(s, b)
    IN  IF lo < hi THEN SubSeq(s, lo + 1, hi) ELSE <<>>

\* s[a:]
SliceFrom(s, a) == Slice(s, a, Len(s))

StartsWith(s, p) == Len(p) <= Len(s) /\ SubSeq(s, 1, Len(p)) = p

RECURSIVE ConcatRange(_, _, _)
\* ss[lo] \o ... \o ss[hi], by halves
ConcatRange(ss, lo, hi) ==
    IF lo > hi THEN <<>>
    ELSE IF lo = hi THEN ss[lo]
    ELSE LET mid == (lo + hi) \div 2
         IN  ConcatRange(ss, lo, mid) \o ConcatRange(ss, mid + 1, hi)

Concat(ss) == Bind(ss, LAMBDA t : ConcatRange(t, 1, Len(t)))

\* s.replace(old, new) for an old whose occurrences cannot overlap (no proper
\* prefix of old is a suffix of it, as for b'\n' and b'\n '): every occurrence
\* is replaced
Replace(s, old, new) ==
    Bind({i \in 1..(Len(s) - Len(old) + 1) : SubSeq(s, i, i + Len(old) - 1) = old},
         LAMBDA occ :
             Concat([i \in 1..Len(s) |->
                        IF i \in occ THEN new
                        ELSE IF \E j \in occ : j < i /\ i <= j + Len(old) - 1 THEN <<>>
                        ELSE <<s[i]>>]))

\* What a Python call yields: a value, or an exception
Ok(v) == [exc |-> "none", val |-> v]

Raise(e) == [exc |-> e, val |-> <<>>]

\* Python's None, where a byte string is expected
None == <<-1>>

Idle == [pc |-> "idle"]

----------------------------------------------------------------------------
(* kvlm codec *)

\* An OrderedDict is a sequence of entries in insertion order; a value is a
\* bytes (list = FALSE, one element in vals) or a list of bytes (list = TRUE).
KeyIndex(dct, key) == {i \in 1..Len(dct) : dct[i].key = key}

HasKey(dct, key) == KeyIndex(dct, key) # {}

GetEntry(dct, key) == dct[CHOOSE i \in KeyIndex(dct, key) : TRUE]

\* dct[key] = value
SetScalar(dct, key, value) ==
    LET e == [key |-> key, list |-> FALSE, vals |-> <<value>>]
    IN  IF HasKey(dct, key)
        THEN [i \in 1..Len(dct) |-> IF dct[i].key = key THEN e ELSE dct[i]]
        ELSE Append(dct, e)

\* the "if key in dct" branch of kvlm_parse: append to, or turn into, a list
AddValue(dct, key, value) ==
    IF HasKey(dct, key)
    THEN [i \in 1..Len(dct) |->
             IF dct[i].key = key
             THEN [key |-> key, list |-> TRUE, vals |-> Append(dct[i].vals, value)]
             ELSE dct[i]]
    ELSE SetScalar(dct, key, value)

RECURSIVE ValueEnd(_, _)
\* the while loop of kvlm_parse: the first "\n" after `end` not followed by " "
ValueEnd(raw, end) ==
    Bind(find(raw, NL, end + 1), LAMBDA e :
        IF ~InRange(raw, e + 1) THEN -2          \* raw[end+1]: IndexError
        ELSE IF At(raw, e + 1) # SP THEN e
        ELSE IF e < 0 THEN -3                    \* no "\n" left and raw[0] = " ": no progress
        ELSE ValueEnd(raw, e))

RECURSIVE kvlm_parse(_, _, _)
kvlm_parse(raw, start, dct) ==
    Bind(find(raw, SP, start), LAMBDA spc :
    Bind(find(raw, NL, start), LAMBDA nl :
        IF (spc < 0) \/ (nl < spc)
        THEN IF nl # start THEN Raise("AssertionError")
             ELSE Bind(SliceFrom(raw, start + 1), LAMBDA msg : Ok(SetScalar(dct, <<>>, msg)))
        ELSE Bind(Slice(raw, start, spc), LAMBDA key :
             Bind(ValueEnd(raw, start), LAMBDA end :
                 IF end = -2 THEN Raise("IndexError")
                 ELSE IF end = -3 THEN Raise("NoReturn")
                 ELSE Bind(Replace(Slice(raw, spc + 1, end), <<NL, SP>>, <<NL>>), LAMBDA value :
                      Bind(AddValue(dct, key, value), LAMBDA d :
                          kvlm_parse(raw, end + 1, d)))))))

\* one "key SP value NL" line per value of an entry
EntryLines(e) ==
    Concat([i \in 1..Len(e.vals) |->
               e.key \o <<SP>> \o Replace(e.vals[i], <<NL>>, <<NL, SP>>) \o <<NL>>])

RECURSIVE SerializeFrom(_, _, _)
\* the for loop of kvlm_serialize from its i-th key on, ret being what it has built
SerializeFrom(kvlm, i, r) ==
    IF i > Len(kvlm) THEN Ok(None)
    ELSE IF kvlm[i].key = <<>> THEN SerializeFrom(kvlm, i + 1, r)
    ELSE IF ~HasKey(kvlm, <<>>) THEN Raise("KeyError")
    ELSE Ok(r \o EntryLines(kvlm[i]) \o <<NL>> \o GetEntry(kvlm, <<>>).vals[1])

kvlm_serialize(kvlm) == SerializeFrom(kvlm, 1, <<>>)

----------------------------------------------------------------------------
(* kvlm codec runs: parse a well-formed input, serialize, parse again *)

KvKeys == {<<ChA>>, <<ChB>>}

KvValues == {<<>>, <<ChA>>, <<ChA, NL, ChB>>}

KvMessages == {<<>>, <<ChM>>, <<ChM, SP, ChM, NL>>}

KvHeaderLists ==
    UNION {[1..n -> KvKeys \X KvValues] : n \in 0..MaxHeaders}

\* the well-formed text of a header list and a message
WellFormedKvlm(hs, msg) ==
    Concat([i \in 1..Len(hs) |->
               hs[i][1] \o <<SP>> \o Replace(hs[i][2], <<NL>>, <<NL, SP>>) \o <<NL>>])
    \o <<NL>> \o msg

KvInit ==
    /\ \E hs \in KvHeaderLists, msg \in KvMessages :
           kv = [pc |-> "input", raw |-> WellFormedKvlm(hs, msg),
                 nkeys |-> Cardinality({hs[i][1] : i \in 1..Len(hs)}),
                 dct |-> Raise("unset"), ser |-> Raise("unset"), dct2 |-> Raise("unset")]
    /\ objects = <<>> /\ refs = <<>> /\ call = Idle /\ ret = Idle /\ hist = {}
    /\ te = Idle /\ rr = Idle /\ ix = Idle

KvRest == <<objects, refs, call, ret, hist, te, rr, ix>>

KvParse ==
    /\ kv.pc = "input"
    /\ kv' = [kv EXCEPT !.pc = "parsed", !.dct = kvlm_parse(kv.raw, 0, <<>>)]
    /\ UNCHANGED KvRest

KvSerialize ==
    /\ kv.pc = "parsed"
    /\ kv.dct.exc = "none"
    /\ kv' = [kv EXCEPT !.pc = "serialized", !.ser = kvlm_serialize(kv.dct.val)]
    /\ UNCHANGED KvRest

KvReparse ==
    /\ kv.pc = "serialized"
    /\ kv' = [kv EXCEPT !.pc = "reparsed",
                        !.dct2 = IF kv.ser.exc # "none" THEN kv.ser
                                 ELSE IF kv.ser.val = None THEN Raise("AttributeError")
                                 ELSE kvlm_parse(kv.ser.val, 0, <<>>)]
    /\ UNCHANGED KvRest

KvNext == KvParse \/ KvSerialize \/ KvReparse

SpecKvlm == KvInit /\ [][KvNext]_vars

\* C1: for every well-formed kvlm input x, kvlm_parse(kvlm_serialize(kvlm_parse(x)))
\* equals kvlm_parse(x): same keys in the same order, same values, same message.
C1_RoundTrip ==
    kv.pc = "reparsed" => (kv.dct.exc = "none" /\ kv.dct2 = kv.dct)

----------------------------------------------------------------------------
(* tree-entry codec *)

SHA_BYTES_LEN == 20

HexChar(n) == IF n < 10 THEN 48 + n ELSE 87 + n

\* the value of a hexadecimal digit, upper or lower case; -1 for any other byte
HexVal(c) ==
    IF c >= 48 /\ c <= 57 THEN c - 48
    ELSE IF c >= 97 /\ c <= 102 THEN c - 87
    ELSE IF c >= 65 /\ c <= 70 THEN c - 55
    ELSE -1

Nibbles(bs) ==
    [i \in 1..(2 * Len(bs)) |->
        IF i % 2 = 1 THEN bs[(i + 1) \div 2] \div 16 ELSE bs[i \div 2] % 16]

\* the digits of a number written without leading zeros (a lone 0 stays)
StripZeros(ns) ==
    Bind(ns, LAMBDA t :
    Bind({i \in 1..Len(t) : t[i] # 0}, LAMBDA nz :
        IF nz = {} THEN <<0>> ELSE SubSeq(t, Min(nz), Len(t))))

\* hex(int.from_bytes(bs, "big"))[2:]
HexOfBytes(bs) ==
    Bind(StripZeros(Nibbles(bs)), LAMBDA ds : [i \in 1..Len(ds) |-> HexChar(ds[i])])

\* int(sha, 16).to_bytes(20, byteorder="big") for a string of hex digits
BytesOfHex(sha) ==
    IF sha = <<>> \/ \E i \in 1..Len(sha) : HexVal(sha[i]) < 0 THEN Raise("ValueError")
    ELSE Bind(StripZeros([i \in 1..Len(sha) |-> HexVal(sha[i])]), LAMBDA ds :
         Bind(2 * SHA_BYTES_LEN - Len(ds), LAMBDA pad :
             IF pad < 0 THEN Raise("OverflowError")
             ELSE Bind([i \in 1..(2 * SHA_BYTES_LEN) |-> IF i <= pad THEN 0 ELSE ds[i - pad]],
                       LAMBDA ns :
                           Ok([i \in 1..SHA_BYTES_LEN |-> 16 * ns[2 * i - 1] + ns[2 * i]]))))

\* returns the next position and the GitTreeLeaf
tree_parse_one(raw, start) ==
    Bind(find(raw, SP, start), LAMBDA x :
    Bind(find(raw, NUL, x), LAMBDA y :
        IF ~(x - start = 5 \/ x - start = 6) THEN Raise("AssertionError")
        ELSE Ok([pos  |-> y + SHA_BYTES_LEN + 1,
                 leaf |-> [mode |-> Slice(raw, start, x),
                           path |-> Slice(raw, x + 1, y),
                           sha  |-> HexOfBytes(Slice(raw, y + 1, y + SHA_BYTES_LEN + 1))]])))

RECURSIVE TreeParseFrom(_, _, _)
\* the while loop of tree_parse
TreeParseFrom(raw, pos, acc) ==
    IF ~(pos < Len(raw)) THEN Ok(acc)
    ELSE Bind(tree_parse_one(raw, pos), LAMBDA one :
             IF one.exc # "none" THEN one
             ELSE Bind(Append(acc, one.val.leaf), LAMBDA acc2 :
                      TreeParseFrom(raw, one.val.pos, acc2)))

tree_parse(raw) == TreeParseFrom(raw, 0, <<>>)

RECURSIVE TreeSerializeFrom(_, _, _)
\* the for loop of tree_serializer
TreeSerializeFrom(items, i, r) ==
    IF i > Len(items) THEN Ok(r)
    ELSE Bind(BytesOfHex(items[i].sha), LAMBDA b :
             IF b.exc # "none" THEN b
             ELSE Bind(r \o items[i].mode \o <<SP>> \o items[i].path \o <<NUL>> \o b.val,
                       LAMBDA r2 : TreeSerializeFrom(items, i + 1, r2)))

tree_serializer(items) == TreeSerializeFrom(items, 1, <<>>)

----------------------------------------------------------------------------
(* tree-entry codec runs: parse one raw entry, serialize the parsed tree *)

TeModes == {<<52, 48, 48, 48, 48>>, <<49, 48, 48, 54, 52, 52>>}

TePaths == {<<ChA>>, <<ChA, SP, ChB>>}

\* 20-byte hashes: z zero bytes, a first byte with or without a zero high
\* nibble, and a fill byte
TeHashes ==
    {[i \in 1..SHA_BYTES_LEN |-> IF i <= z THEN 0 ELSE IF i = z + 1 THEN b ELSE f] :
        z \in 0..MaxZeroBytes, b \in {0, 10, 171}, f \in {0, 1, 255}}

TeInit ==
    /\ \E mode \in TeModes, path \in TePaths, h \in TeHashes :
           te = [pc |-> "input", hash |-> h,
                 raw |-> mode \o <<SP>> \o path \o <<NUL>> \o h,
                 items |-> Raise("unset"), out |-> Raise("unset")]
    /\ objects = <<>> /\ refs = <<>> /\ call = Idle /\ ret = Idle /\ hist = {}
    /\ kv = Idle /\ rr = Idle /\ ix = Idle

TeRest == <<objects, refs, call, ret, hist, kv, rr, ix>>

TeParse ==
    /\ te.pc = "input"
    /\ te' = [te EXCEPT !.pc = "parsed", !.items = tree_parse(te.raw)]
    /\ UNCHANGED TeRest

TeSerialize ==
    /\ te.pc = "parsed"
    /\ te.items.exc = "none"
    /\ te' = [te EXCEPT !.pc = "serialized", !.out = tree_serializer(te.items.val)]
    /\ UNCHANGED TeRest

TeNext == TeParse \/ TeSerialize

SpecTree == TeInit /\ [][TeNext]_vars

\* C2: for every 20-byte raw hash h of a tree entry, tree_parse_one decodes it to
\* a hex string of exactly 40 characters, and tree_serializer reproduces h exactly.
C2_HashRoundTrip ==
    /\ te.pc \in {"parsed", "serialized"} =>
          (te.items.exc = "none" /\ Len(te.items.val) = 1
           /\ Len(te.items.val[1].sha) = 2 * SHA_BYTES_LEN)
    /\ te.pc = "serialized" => te.out = Ok(te.raw)

----------------------------------------------------------------------------
(* index parser *)

HEADER_LEN == 12

FIXED_LEN == 62

RECURSIVE FromBytes(_)
\* int.from_bytes(bs, "big")
FromBytes(bs) ==
    IF bs = <<>> THEN 0
    ELSE 256 * FromBytes(SubSeq(bs, 1, Len(bs) - 1)) + bs[Len(bs)]

\* 8 * ceil(idx / 8)
Align8(idx) == 8 * ((idx + 7) \div 8)

\* one iteration of the for loop of GitIndex.__init__: the entry, and the next idx
IndexEntryAt(content, idx) ==
    Bind(find(content, NUL, idx + FIXED_LEN), LAMBDA null_idx :
        [entry |-> [ctime       |-> Slice(content, idx, idx + 8),
                    mtime       |-> Slice(content, idx + 8, idx + 16),
                    dev         |-> Slice(content, idx + 16, idx + 20),
                    ino         |-> Slice(content, idx + 20, idx + 24),
                    mode_type   |-> Slice(content, idx + 24, idx + 28),
                    uid         |-> Slice(content, idx + 28, idx + 32),
                    gid         |-> Slice(content, idx + 32, idx + 36),
                    fsize       |-> Slice(content, idx + 36, idx + 40),
                    object_hash |-> Slice(content, idx + 40, idx + 60),
                    name        |-> Slice(content, idx + FIXED_LEN, null_idx)],
         idx   |-> Align8(null_idx + 1)])

RECURSIVE IndexEntriesFrom(_, _, _, _)
IndexEntriesFrom(content, idx, n, acc) ==
    IF n = 0 THEN acc
    ELSE Bind(IndexEntryAt(content, idx), LAMBDA one :
         Bind(Append(acc, one.entry), LAMBDA entries :
             IndexEntriesFrom(content, one.idx, n - 1, entries)))

\* GitIndex.__init__ on the bytes of the index file
GitIndex(raw) ==
    Bind(Slice(raw, 0, HEADER_LEN), LAMBDA header :
    Bind(SliceFrom(raw, HEADER_LEN), LAMBDA content :
    Bind(FromBytes(Slice(header, 8, 12)), LAMBDA nindex :
        Ok([signature |-> Slice(header, 0, 4),
            version   |-> <<48, 120>> \o HexOfBytes(Slice(header, 4, 8)),
            entries   |-> IndexEntriesFrom(content, 0, nindex, <<>>)]))))

----------------------------------------------------------------------------
(* index parser runs: a header, complete records, and a possibly cut last one *)

IxSignature == <<68, 73, 82, 67>>

IxHeader(count) == IxSignature \o <<0, 0, 0, 2>> \o <<0, 0, 0, count>>

\* the fixed fields of a record, each filled with its own ordinal
IxFixed ==
    [i \in 1..FIXED_LEN |->
        IF i <= 8 THEN 1 ELSE IF i <= 16 THEN 2 ELSE IF i <= 20 THEN 3
        ELSE IF i <= 24 THEN 4 ELSE IF i <= 28 THEN 5 ELSE IF i <= 32 THEN 6
        ELSE IF i <= 36 THEN 7 ELSE IF i <= 40 THEN 8 ELSE IF i <= 60 THEN 9 ELSE 0]

IxName(len) == [i \in 1..len |-> ChA]

\* a complete record: fixed fields, name, NUL, NUL padding up to a multiple of 8
IxRecord(len) ==
    LET body == IxFixed \o IxName(len) \o <<NUL>>
    IN  body \o [i \in 1..(Align8(Len(body)) - Len(body)) |-> NUL]

\* what is left of a cut record: "none" of it, its fixed fields cut short
\* ("fixed"), or everything up to but without the NUL after the name ("name")
IxPartial(len, cut) ==
    CASE cut = "none"  -> <<>>
      [] cut = "fixed" -> SubSeq(IxFixed, 1, 30)
      [] cut = "name"  -> IxFixed \o IxName(len)

IxInit ==
    /\ \E count \in 0..MaxCount, have \in 0..MaxCount,
          len \in 1..MaxNameLen, cut \in {"none", "fixed", "name"} :
           ix = [pc |-> "input", count |-> count, have |-> have, cut |-> cut, len |-> len,
                 raw |-> IxHeader(count)
                         \o Concat([i \in 1..have |-> IxRecord(len)])
                         \o IxPartial(len, cut),
                 out |-> Raise("unset")]
    /\ objects = <<>> /\ refs = <<>> /\ call = Idle /\ ret = Idle /\ hist = {}
    /\ kv = Idle /\ te = Idle /\ rr = Idle

IxParse ==
    /\ ix.pc = "input"
    /\ ix' = [ix EXCEPT !.pc = "parsed", !.out = GitIndex(ix.raw)]
    /\ UNCHANGED <<objects, refs, call, ret, hist, kv, te, rr>>

IxNext == IxParse

SpecIndex == IxInit /\ [][IxNext]_vars

\* the entry a complete record of the generated file decodes to
IxExpectedEntry(len) ==
    [ctime |-> SubSeq(IxFixed, 1, 8), mtime |-> SubSeq(IxFixed, 9, 16),
     dev |-> SubSeq(IxFixed, 17, 20), ino |-> SubSeq(IxFixed, 21, 24),
     mode_type |-> SubSeq(IxFixed, 25, 28), uid |-> SubSeq(IxFixed, 29, 32),
     gid |-> SubSeq(IxFixed, 33, 36), fsize |-> SubSeq(IxFixed, 37, 40),
     object_hash |-> SubSeq(IxFixed, 41, 60), name |-> IxName(len)]

\* C9: the index parser fails with TruncatedIndex whenever the input holds fewer
\* complete records than the header's entry count; on success the number of
\* entries equals the header count and every entry is a complete record's.
C9_TruncatedIndexFails ==
    ix.pc = "parsed" =>
        IF ix.have < ix.count
        THEN ix.out.exc = "TruncatedIndex"
        ELSE /\ ix.out.exc = "none"
             /\ Len(ix.out.val.entries) = ix.count
             /\ \A i \in 1..ix.count : ix.out.val.entries[i] = IxExpectedEntry(ix.len)

----------------------------------------------------------------------------
(* reference resolver *)

S_HEAD == <<72, 69, 65, 68>>

\* "ref: "
S_ref == <<114, 101, 102, 58, 32>>

\* "refs/head/master", the target repo_create writes into HEAD
P_master == <<114, 101, 102, 115, 47, 104, 101, 97, 100, 47, 109, 97, 115, 116, 101, 114>>

\* "refs/tags/"
P_tags == <<114, 101, 102, 115, 47, 116, 97, 103, 115, 47>>

\* one activation of ref_resolve on the reference files: what it returns, the
\* reference it calls itself on, or what open raises
RefStep(files, ref) ==
    IF ref \notin DOMAIN files THEN [kind |-> "raise", exc |-> "FileNotFoundError"]
    ELSE Bind(Slice(files[ref], 0, -1), LAMBDA data :
             IF StartsWith(data, S_ref)
             THEN [kind |-> "recurse", ref |-> SliceFrom(data, Len(S_ref))]
             ELSE [kind |-> "return", val |-> data])

RECURSIVE RefResolveAt(_, _, _)
\* ref_resolve with `depth` activations already on the interpreter's stack
RefResolveAt(files, ref, depth) ==
    IF depth >= RecursionLimit THEN Raise("RecursionError")
    ELSE Bind(RefStep(files, ref), LAMBDA s :
             CASE s.kind = "raise"   -> Raise(s.exc)
               [] s.kind = "return"  -> Ok(s.val)
               [] s.kind = "recurse" -> RefResolveAt(files, s.ref, depth + 1))

ref_resolve(files, ref) == RefResolveAt(files, ref, 0)

----------------------------------------------------------------------------
(* ref_resolve runs over arbitrary reference files, one activation per step *)

RrNames == {S_HEAD, P_master, P_tags \o <<ChA>>}

\* a direct hash
RrHash == [i \in 1..(2 * SHA_BYTES_LEN) |-> ChA]

\* what a reference file may hold: a hash, or a pointer to any of the names
RrTexts == {RrHash \o <<NL>>} \cup {S_ref \o n \o <<NL>> : n \in RrNames}

RrInit ==
    /\ \E present \in SUBSET RrNames : refs \in [present -> RrTexts]
    /\ rr = [pc |-> "idle", start |-> <<>>, ref |-> <<>>, depth |-> 0, out |-> Raise("unset")]
    /\ objects = <<>> /\ call = Idle /\ ret = Idle /\ hist = {}
    /\ kv = Idle /\ te = Idle /\ ix = Idle

RrRest == <<objects, refs, call, ret, hist, kv, te, ix>>

\* ref_resolve(repo, ref) is called
RrCall(ref) ==
    /\ rr.pc = "idle"
    /\ rr' = [pc |-> "running", start |-> ref, ref |-> ref, depth |-> 0, out |-> Raise("unset")]
    /\ UNCHANGED RrRest

\* the running activation reads its file and returns, raises, or calls itself
RrStep ==
    /\ rr.pc = "running"
    /\ LET s == RefStep(refs, rr.ref)
       IN  rr' = IF rr.depth >= RecursionLimit
                 THEN [rr EXCEPT !.pc = "done", !.out = Raise("RecursionError")]
                 ELSE CASE s.kind = "raise"   -> [rr EXCEPT !.pc = "done", !.out = Raise(s.exc)]
                        [] s.kind = "return"  -> [rr EXCEPT !.pc = "done", !.out = Ok(s.val)]
                        [] s.kind = "recurse" -> [rr EXCEPT !.ref = s.ref, !.depth = rr.depth + 1]
    /\ UNCHANGED RrRest

RrNext == (\E ref \in RrNames : RrCall(ref)) \/ RrStep

SpecRef == RrInit /\ [][RrNext]_vars

RECURSIVE RrChain(_, _, _)
\* the names met when following symbolic pointers from ref, at most n of them
RrChain(files, ref, n) ==
    IF n = 0 \/ ref \notin DOMAIN files THEN {}
    ELSE LET s == RefStep(files, ref)
         IN  {ref} \cup (IF s.kind = "recurse" THEN RrChain(files, s.ref, n - 1) ELSE {})

\* following pointers from ref returns to a name already visited
RrCyclic(files, ref) ==
    \E n \in RrChain(files, ref, Cardinality(RrNames)) :
        /\ n \in DOMAIN files
        /\ RefStep(files, n).kind = "recurse"
        /\ RefStep(files, n).ref \in RrChain(files, n, Cardinality(RrNames))
        /\ n \in RrChain(files, RefStep(files, n).ref, Cardinality(RrNames))

\* C3: whenever following symbolic pointers from the requested name returns to a
\* name already visited, ref_resolve ends with a ReferenceCycle failure.
C3_CycleFails ==
    (rr.pc = "done" /\ RrCyclic(refs, rr.start)) => rr.out = Raise("ReferenceCycle")

----------------------------------------------------------------------------
(* object store *)

PREFIX_LEN == 2

B_blob == <<98, 108, 111, 98>>

B_tree == <<116, 114, 101, 101>>

B_commit == <<99, 111, 109, 109, 105, 116>>

B_tag == <<116, 97, 103>>

K_object == <<111, 98, 106, 101, 99, 116>>

K_type == <<116, 121, 112, 101>>

K_tagger == <<116, 97, 103, 103, 101, 114>>

\* b'User <user@example.com>'
V_tagger ==
    <<85, 115, 101, 114, 32, 60, 117, 115, 101, 114, 64, 101, 120, 97, 109, 112,
      108, 101, 46, 99, 111, 109, 62>>

\* b'A tag generated by wyag.'
V_message ==
    <<65, 32, 116, 97, 103, 32, 103, 101, 110, 101, 114, 97, 116, 101, 100, 32,
      98, 121, 32, 119, 121, 97, 103, 46>>

\* a GitObject: its class attribute fmt and the attribute its class fills
GitBlob(data) == [fmt |-> B_blob, blobdata |-> data, kvlm |-> <<>>, items |-> <<>>]

GitKvlm(fmt, kvlm) == [fmt |-> fmt, blobdata |-> <<>>, kvlm |-> kvlm, items |-> <<>>]

GitTree(items) == [fmt |-> B_tree, blobdata |-> <<>>, kvlm |-> <<>>, items |-> items]

\* the constructor c(repo, data) of the class of fmt, which deserializes data
Deserialize(fmt, data) ==
    IF fmt = B_blob THEN Ok(GitBlob(data))
    ELSE IF fmt = B_tree
    THEN Bind(tree_parse(data), LAMBDA t : IF t.exc # "none" THEN t ELSE Ok(GitTree(t.val)))
    ELSE Bind(kvlm_parse(data, 0, <<>>),
              LAMBDA k : IF k.exc # "none" THEN k ELSE Ok(GitKvlm(fmt, k.val)))

\* obj.serialize()
Serialize(obj) ==
    IF obj.fmt = B_blob THEN Ok(obj.blobdata)
    ELSE IF obj.fmt = B_tree THEN tree_serializer(obj.items)
    ELSE kvlm_serialize(obj.kvlm)

RECURSIVE Dec(_)
\* str(n).encode() for n >= 0
Dec(n) == IF n < 10 THEN <<48 + n>> ELSE Dec(n \div 10) \o <<48 + (n % 10)>>

RECURSIVE DigitsValue(_)
DigitsValue(ds) ==
    IF ds = <<>> THEN 0 ELSE 10 * DigitsValue(SubSeq(ds, 1, Len(ds) - 1)) + (ds[Len(ds)] - 48)

RECURSIVE LStrip(_)
LStrip(bs) == IF bs # <<>> /\ bs[1] = SP THEN LStrip(Tail(bs)) ELSE bs

\* int(bs.decode("ascii")) for blanks followed by decimal digits
ParseInt(bs) ==
    Bind(LStrip(bs), LAMBDA ds :
        IF ds = <<>> \/ \E i \in 1..Len(ds) : ds[i] < 48 \/ ds[i] > 57
        THEN Raise("ValueError")
        ELSE Ok(DigitsValue(ds)))

RECURSIVE Fold(_, _, _)
\* a digest of bs[lo..hi], by halves: the bytes weighted by their positions
Fold(bs, lo, hi) ==
    IF lo > hi THEN 7
    ELSE IF lo = hi THEN ((bs[lo] + 1) * (lo * lo * 7 + lo * 131 + 1)) % 65521
    ELSE LET mid == (lo + hi) \div 2
         IN  (Fold(bs, lo, mid) + Fold(bs, mid + 1, hi)) % 65521

\* hashlib.sha1(result).hexdigest(): a digest of the bytes, written as 40
\* lowercase hex characters. The digest is an abstraction of SHA-1 that is
\* deterministic and free of collisions on the objects of the model; its first
\* four characters take three values only, so that stored hashes share prefixes.
sha1(result) ==
    Bind(Fold(result, 1, Len(result)), LAMBDA d :
        [i \in 1..(2 * SHA_BYTES_LEN) |->
            IF i <= 4 THEN HexChar(10 + (d % 3))
            ELSE HexChar((d \div (16 ^ (3 - ((i - 1) % 4)))) % 16)])

\* zlib.compress: the two-byte zlib header, then the stream (kept as the data)
Compress(bs) == <<120, 156>> \o bs

\* zlib.decompress
Decompress(bs) ==
    IF StartsWith(bs, <<120, 156>>) THEN Ok(SliceFrom(bs, 2)) ELSE Raise("zlib.error")

\* WriteObjectFile with the bucket directory made anew on every write
WriteObjectFile_NewBucket(objs, sha, bytes) ==
    (Slice(sha, 0, 2) :> (SliceFrom(sha, 2) :> bytes)) @@ objs

\* repo_file(..., "objects", sha[0:2], sha[2:], mkdir=True) and the write of the
\* file: the bucket directory is made if missing, the file created or truncated
WriteObjectFile(objs, sha, bytes) ==
    LET bucket == Slice(sha, 0, 2)
        file   == SliceFrom(sha, 2)
    IN  IF bucket \in DOMAIN objs
        THEN [objs EXCEPT ![bucket] = (file :> bytes) @@ objs[bucket]]
        ELSE (bucket :> (file :> bytes)) @@ objs

\* object_write that writes the file whatever actually_write is
object_write_AlwaysWrites(objs, obj, actually_write) ==
    Bind(Serialize(obj), LAMBDA data :
        IF data.exc # "none" THEN [ret |-> data, objects |-> objs]
        ELSE IF data.val = None THEN [ret |-> Raise("TypeError"), objects |-> objs]
        ELSE Bind(obj.fmt \o <<SP>> \o Dec(Len(data.val)) \o <<NUL>> \o data.val, LAMBDA result :
             Bind(sha1(result), LAMBDA sha :
                 [ret     |-> Ok(sha),
                  objects |-> WriteObjectFile(objs, sha, Compress(result))])))

\* returns the hash (or raises) and the object directory it leaves
object_write(objs, obj, actually_write) ==
    Bind(Serialize(obj), LAMBDA data :
        IF data.exc # "none" THEN [ret |-> data, objects |-> objs]
        ELSE IF data.val = None THEN [ret |-> Raise("TypeError"), objects |-> objs]
        ELSE Bind(obj.fmt \o <<SP>> \o Dec(Len(data.val)) \o <<NUL>> \o data.val, LAMBDA result :
             Bind(sha1(result), LAMBDA sha :
                 [ret     |-> Ok(sha),
                  objects |-> IF actually_write
                              THEN WriteObjectFile(objs, sha, Compress(result))
                              ELSE objs])))

\* ParseObject with the payload taken from the NUL on, instead of after it
ParseObject_KeepNul(raw) ==
    Bind(find(raw, SP, 0), LAMBDA x :
    Bind(Slice(raw, 0, x), LAMBDA fmt :
    Bind(find(raw, NUL, IF x < 0 THEN 0 ELSE x), LAMBDA y :
    Bind(ParseInt(Slice(raw, x, y)), LAMBDA size :
        IF size.exc # "none" THEN size
        ELSE IF size.val # Len(raw) - y - 1 THEN Raise("CorruptObject")
        ELSE IF fmt \notin {B_commit, B_tree, B_tag, B_blob} THEN Raise("UnsupportedType")
        ELSE Bind(SliceFrom(raw, y), LAMBDA data : Deserialize(fmt, data))))))

\* the parse of the decompressed bytes of an object file
ParseObject(raw) ==
    Bind(find(raw, SP, 0), LAMBDA x :
    Bind(Slice(raw, 0, x), LAMBDA fmt :
    Bind(find(raw, NUL, IF x < 0 THEN 0 ELSE x), LAMBDA y :
    Bind(ParseInt(Slice(raw, x, y)), LAMBDA size :
        IF size.exc # "none" THEN size
        ELSE IF size.val # Len(raw) - y - 1 THEN Raise("CorruptObject")
        ELSE IF fmt \notin {B_commit, B_tree, B_tag, B_blob} THEN Raise("UnsupportedType")
        ELSE Bind(SliceFrom(raw, y + 1), LAMBDA data : Deserialize(fmt, data))))))

object_read(objs, sha) ==
    IF sha = None THEN Raise("TypeError")
    ELSE LET bucket == Slice(sha, 0, 2)
             file   == SliceFrom(sha, 2)
         IN  IF bucket \notin DOMAIN objs THEN Raise("TypeError")
             ELSE IF file \notin DOMAIN objs[bucket] THEN Raise("FileNotFoundError")
             ELSE Bind(Decompress(objs[bucket][file]), LAMBDA raw :
                      IF raw.exc # "none" THEN raw ELSE ParseObject(raw.val))

\* every stored hash: bucket name followed by file name
StoredHashes(objs) == UNION {{b \o f : f \in DOMAIN objs[b]} : b \in DOMAIN objs}

----------------------------------------------------------------------------
(* name resolution *)

IsHex(c) == HexVal(c) >= 0

LowerChar(c) == IF c >= 65 /\ c <= 90 THEN c + 32 ELSE c

\* name.lower()
Lower(name) == [i \in 1..Len(name) |-> LowerChar(name[i])]

\* not name.strip()
IsBlank(name) == \A i \in 1..Len(name) : name[i] \in {SP, NL, 9, 11, 12, 13}

\* hashRE.match(name) for r"^[0-9A-Fa-f]{4,40}$": "$" also matches just before
\* a newline that ends the string
HashREMatch(name) ==
    LET body == IF name # <<>> /\ name[Len(name)] = NL
                THEN SubSeq(name, 1, Len(name) - 1) ELSE name
        hexrun(t) == Len(t) >= 4 /\ Len(t) <= 40 /\ \A i \in 1..Len(t) : IsHex(t[i])
    IN  hexrun(name) \/ hexrun(body)

\* the candidates (a list, kept as a set: os.listdir gives no order), or None
object_resolve(objs, files, name) ==
    IF IsBlank(name) THEN [exc |-> "none", none |-> TRUE, val |-> {}]
    ELSE IF name = S_HEAD
    THEN Bind(ref_resolve(files, S_HEAD), LAMBDA r :
             IF r.exc # "none" THEN [exc |-> r.exc, none |-> FALSE, val |-> {}]
             ELSE [exc |-> "none", none |-> FALSE, val |-> {r.val}])
    ELSE IF HashREMatch(name)
    THEN IF Len(name) = 40
         THEN [exc |-> "none", none |-> FALSE, val |-> {Lower(name)}]
         ELSE LET lname  == Lower(name)
                  prefix == Slice(lname, 0, PREFIX_LEN)
                  rem    == SliceFrom(lname, PREFIX_LEN)
              IN  [exc |-> "none", none |-> FALSE,
                   val |-> IF prefix \in DOMAIN objs
                           THEN {prefix \o f : f \in {g \in DOMAIN objs[prefix] : StartsWith(g, rem)}}
                           ELSE {}]
    ELSE [exc |-> "none", none |-> FALSE, val |-> {}]

\* obj.kvlm[key].decode("ascii")
KvField(kvlm, key) ==
    IF ~HasKey(kvlm, key) THEN Raise("KeyError")
    ELSE IF GetEntry(kvlm, key).list THEN Raise("AttributeError")
    ELSE IF \E i \in 1..Len(GetEntry(kvlm, key).vals[1]) : GetEntry(kvlm, key).vals[1][i] > 127
    THEN Raise("UnicodeDecodeError")
    ELSE Ok(GetEntry(kvlm, key).vals[1])

RECURSIVE FindLoop(_, _, _, _)
\* the while loop of object_find
FindLoop(objs, sha, fmt, follow) ==
    Bind(object_read(objs, sha), LAMBDA obj :
        IF obj.exc # "none" THEN obj
        ELSE IF obj.val.fmt = fmt THEN Ok(sha)
        ELSE IF ~follow THEN Ok(None)
        ELSE IF obj.val.fmt = B_tag
        THEN Bind(KvField(obj.val.kvlm, K_object), LAMBDA f :
                 IF f.exc # "none" THEN f ELSE FindLoop(objs, f.val, fmt, follow))
        ELSE IF obj.val.fmt = B_commit /\ fmt = B_tree
        THEN Bind(KvField(obj.val.kvlm, B_tree), LAMBDA f :
                 IF f.exc # "none" THEN f ELSE FindLoop(objs, f.val, fmt, follow))
        ELSE Ok(None))

\* object_find without the check for more than one candidate
object_find_AnyCandidate(objs, files, name, fmt, follow) ==
    Bind(object_resolve(objs, files, name), LAMBDA c :
        IF c.exc # "none" THEN Raise(c.exc)
        ELSE IF c.none \/ c.val = {} THEN Raise("NameNotFound")
        ELSE Bind(CHOOSE h \in c.val : TRUE, LAMBDA sha :
                 IF fmt = None \/ fmt = <<>> THEN Ok(sha)
                 ELSE FindLoop(objs, sha, fmt, follow)))

\* the two raise Exception(...) of object_find are named by what they report:
\* "Not such reference" is NameNotFound, "Ambiguous reference" is AmbiguousName
object_find(objs, files, name, fmt, follow) ==
    Bind(object_resolve(objs, files, name), LAMBDA c :
        IF c.exc # "none" THEN Raise(c.exc)
        ELSE IF c.none \/ c.val = {} THEN Raise("NameNotFound")
        ELSE IF Cardinality(c.val) > 1 THEN Raise("AmbiguousName")
        ELSE Bind(CHOOSE h \in c.val : TRUE, LAMBDA sha :
                 IF fmt = None \/ fmt = <<>> THEN Ok(sha)
                 ELSE FindLoop(objs, sha, fmt, follow)))

\* "refs/"
P_refs == <<114, 101, 102, 115, 47>>

\* "tags/"
P_tagsdir == <<116, 97, 103, 115, 47>>

\* writes sha + "\n" into refs/<ref_name>
ref_create(files, ref_name, sha) ==
    ((P_refs \o ref_name) :> (sha \o <<NL>>)) @@ files

\* the kvlm tag_create builds for a tag object
TagKvlm(name, sha) ==
    <<[key |-> K_object, list |-> FALSE, vals |-> <<sha>>],
      [key |-> K_type,   list |-> FALSE, vals |-> <<B_commit>>],
      [key |-> B_tag,    list |-> FALSE, vals |-> <<name>>],
      [key |-> K_tagger, list |-> FALSE, vals |-> <<V_tagger>>],
      [key |-> <<>>,     list |-> FALSE, vals |-> <<V_message>>]>>

\* returns None (or raises), and the object directory and reference files it leaves
tag_create(objs, files, name, reference, type) ==
    Bind(object_find(objs, files, reference, None, TRUE), LAMBDA sha :
        IF sha.exc # "none" THEN [ret |-> sha, objects |-> objs, refs |-> files]
        ELSE Bind(IF type = "object"
                  THEN object_write(objs, GitKvlm(B_tag, TagKvlm(name, sha.val)), TRUE)
                  ELSE [ret |-> sha, objects |-> objs],
                  LAMBDA w :
                      IF w.ret.exc # "none"
                      THEN [ret |-> w.ret, objects |-> w.objects, refs |-> files]
                      ELSE [ret     |-> Ok(None),
                            objects |-> w.objects,
                            refs    |-> ref_create(files, P_tagsdir \o name, w.ret.val)]))

\* object_hash on the bytes of the file; write is whether a repository is given
object_hash(objs, data, fmt, write) ==
    IF fmt \notin {B_commit, B_tree, B_tag, B_blob}
    THEN [ret |-> Raise("UnknownType"), objects |-> objs]
    ELSE Bind(Deserialize(fmt, data), LAMBDA obj :
             IF obj.exc # "none" THEN [ret |-> obj, objects |-> objs]
             ELSE object_write(objs, obj.val, write))

----------------------------------------------------------------------------
(* the repository: commands run one after the other on the files under .git *)

NoCall == [op |-> "idle"]

NoRet == Raise("idle")

\* "ref: refs/head/master\n", what repo_create writes into HEAD
HeadInit == S_ref \o P_master \o <<NL>>

\* the repository repo_create leaves: no object, HEAD only
Init ==
    /\ objects = <<>>
    /\ refs = (S_HEAD :> HeadInit)
    /\ call = NoCall /\ ret = NoRet /\ hist = {}
    /\ kv = Idle /\ te = Idle /\ rr = Idle /\ ix = Idle

\* file contents given to hash-object
BlobPayloads == {[i \in 1..n |-> IF i % 2 = 1 THEN NUL ELSE SP] : n \in 0..MaxBlobLen}

CommitTexts(objs) ==
    {B_tree \o <<SP>> \o h \o <<NL, NL, ChM>> : h \in StoredHashes(objs)} \cup {<<NL, ChM>>}

HashInputs(objs) ==
    ({B_blob} \X BlobPayloads) \cup ({B_tree} \X {<<>>}) \cup ({B_commit} \X CommitTexts(objs))

\* names given to the commands: for each stored hash the hash itself, its first
\* 4 characters in lower and in upper case, its first 6 characters, and its first
\* 39 characters followed by a newline; HEAD; blank, non-hex and too short names;
\* a hash that is not stored
Zero40 == [i \in 1..(2 * SHA_BYTES_LEN) |-> 48]

NamesOf(h) ==
    {h, Slice(h, 0, 4), [i \in 1..4 |-> h[i] - 32], Slice(h, 0, 6), Slice(h, 0, 39) \o <<NL>>}

Names(objs) ==
    UNION {NamesOf(h) : h \in StoredHashes(objs)}
    \cup {S_HEAD, <<>>, <<SP>>, <<122, 122, 122, 122>>, <<ChA, ChA, ChA>>, Zero40}

Formats == {None, B_blob, B_commit, B_tree, B_tag}

TagNames == {<<116>>}

Runs == <<kv, te, rr, ix>>

\* wyag hash-object [-w] -t fmt path
HashObject(fmt, data, write) ==
    /\ call = NoCall
    /\ \E w \in {object_hash(objects, data, fmt, write)} :
           /\ Cardinality(StoredHashes(w.objects)) <= MaxObjects
           /\ objects' = w.objects
           /\ ret' = w.ret
           /\ hist' = IF write /\ w.ret.exc = "none"
                      THEN hist \cup {[obj |-> Deserialize(fmt, data).val, sha |-> w.ret.val]}
                      ELSE hist
    /\ call' = [op |-> "hash-object", fmt |-> fmt, data |-> data, write |-> write]
    /\ UNCHANGED <<refs, Runs>>

\* wyag tag [-a] name object
TagCreate(name, reference, type) ==
    /\ call = NoCall
    /\ \E t \in {tag_create(objects, refs, name, reference, type)} :
           /\ Cardinality(StoredHashes(t.objects)) <= MaxObjects
           /\ objects' = t.objects
           /\ refs' = t.refs
           /\ ret' = t.ret
           /\ hist' = IF type = "object" /\ t.ret.exc = "none"
                      THEN hist \cup
                           {[obj |-> GitKvlm(B_tag, TagKvlm(name,
                                         object_find(objects, refs, reference, None, TRUE).val)),
                             sha |-> Slice(t.refs[P_tags \o name], 0, -1)]}
                      ELSE hist
    /\ call' = [op |-> "tag", name |-> name, reference |-> reference, type |-> type]
    /\ UNCHANGED Runs

\* object_find(repo, name, fmt), as rev-parse, cat-file, ls-tree, log call it
ObjectFind(name, fmt) ==
    /\ call = NoCall
    /\ ret' = object_find(objects, refs, name, fmt, TRUE)
    /\ call' = [op |-> "object_find", name |-> name, fmt |-> fmt]
    /\ UNCHANGED <<objects, refs, hist, Runs>>

ObjectResolve(name) ==
    /\ call = NoCall
    /\ ret' = object_resolve(objects, refs, name)
    /\ call' = [op |-> "object_resolve", name |-> name]
    /\ UNCHANGED <<objects, refs, hist, Runs>>

ObjectRead(sha) ==
    /\ call = NoCall
    /\ ret' = object_read(objects, sha)
    /\ call' = [op |-> "object_read", sha |-> sha]
    /\ UNCHANGED <<objects, refs, hist, Runs>>

\* ref_resolve(repo, ref), as show-ref calls it on every reference file
RefResolve(ref) ==
    /\ call = NoCall
    /\ ret' = ref_resolve(refs, ref)
    /\ call' = [op |-> "ref_resolve", ref |-> ref]
    /\ UNCHANGED <<objects, refs, hist, Runs>>

\* the command returns to main, and the process ends
Exit ==
    /\ call # NoCall
    /\ call' = NoCall
    /\ ret' = NoRet
    /\ UNCHANGED <<objects, refs, hist, Runs>>

Next ==
    \/ \E in \in HashInputs(objects), write \in BOOLEAN : HashObject(in[1], in[2], write)
    \/ \E name \in TagNames, reference \in Names(objects), type \in {"ref", "object"} :
           TagCreate(name, reference, type)
    \/ \E name \in Names(objects), fmt \in Formats : ObjectFind(name, fmt)
    \/ \E name \in Names(objects) : ObjectResolve(name)
    \/ \E sha \in StoredHashes(objects) \cup {Zero40} : ObjectRead(sha)
    \/ \E ref \in DOMAIN refs \cup {P_master} : RefResolve(ref)
    \/ Exit

Spec == Init /\ [][Next]_vars

----------------------------------------------------------------------------
(* properties of the repository *)

\* a string of n hexadecimal characters, lo <= n <= hi, in either case
HexRun(name, lo, hi) ==
    Len(name) >= lo /\ Len(name) <= hi /\ \A i \in 1..Len(name) : IsHex(name[i])

\* exactly 40 lowercase hexadecimal characters
IsHash(h) ==
    /\ Len(h) = 2 * SHA_BYTES_LEN
    /\ \A i \in 1..Len(h) : (h[i] >= 48 /\ h[i] <= 57) \/ (h[i] >= 97 /\ h[i] <= 102)

\* the stored hashes whose lowercase form starts with the lowercased name
Matching(objs, name) ==
    {h \in StoredHashes(objs) : StartsWith(Lower(h), Lower(name))}

\* the bytes stored under a hash
Entry(objs, h) == objs[Slice(h, 0, PREFIX_LEN)][SliceFrom(h, PREFIX_LEN)]

\* C4: when object_find is asked for a type and returns, it returns a hash, and
\* the object stored under that hash has the requested type; a mismatch that no
\* rule resolves (a blob or a tree when a commit is requested, a commit when a
\* blob is requested) ends in a failure, never in a returned value.
C4_FindReturnsRequestedType ==
    (call.op = "object_find" /\ call.fmt # None /\ ret.exc = "none") =>
        /\ ret.val # None
        /\ object_read(objects, ret.val).exc = "none"
        /\ object_read(objects, ret.val).val.fmt = call.fmt

\* C5: object_find (called directly, or by tag_create on its reference) fails
\* with NameNotFound when object_resolve yields no candidate and with
\* AmbiguousName when it yields two or more, as it does when two or more stored
\* hashes share a prefix of 4 to 39 characters; it succeeds only on exactly one
\* candidate; both failures leave the object store and the references unchanged.
C5_FindFailures ==
    [][call'.op \in {"object_find", "tag"} =>
          LET name == IF call'.op = "tag" THEN call'.reference ELSE call'.name
              c    == object_resolve(objects, refs, name)
          IN  /\ (c.exc = "none" /\ c.val = {}) => ret' = Raise("NameNotFound")
              /\ (c.exc = "none" /\ Cardinality(c.val) >= 2) => ret' = Raise("AmbiguousName")
              /\ (HexRun(name, 4, 39) /\ Matching(objects, name) = {})
                     => ret' = Raise("NameNotFound")
              /\ (HexRun(name, 4, 39) /\ Cardinality(Matching(objects, name)) >= 2)
                     => ret' = Raise("AmbiguousName")
              /\ ret'.exc = "none" => (c.exc = "none" /\ Cardinality(c.val) = 1)
              /\ ret'.exc \in {"NameNotFound", "AmbiguousName"}
                     => (objects' = objects /\ refs' = refs)]_vars

\* a prefix shared by two stored hashes has been looked up and found ambiguous
C5_Witness ==
    /\ call.op = "object_find"
    /\ HexRun(call.name, 4, 39)
    /\ Cardinality(Matching(objects, call.name)) >= 2
    /\ ret = Raise("AmbiguousName")

\* C6: object_resolve returns, for a name of 4 to 39 hex characters, exactly the
\* stored hashes that start with the lowercased name; for a name of exactly 40
\* hex characters, that name (in lowercase) as the single candidate; for any
\* other string but HEAD, no candidate.
C6_ResolveCandidates ==
    (call.op = "object_resolve" /\ call.name # S_HEAD) =>
        /\ ret.exc = "none"
        /\ IF HexRun(call.name, 4, 39) THEN ret.val = Matching(objects, call.name)
           ELSE IF HexRun(call.name, 40, 40) THEN ret.val = {Lower(call.name)}
           ELSE ret.val = {}

\* C7: every step leaves every stored entry in place with the bytes it had; a
\* persisting write adds at most the entry of the hash it returns, and returns
\* the hash that every earlier write of the same object returned.
C7_AppendOnly ==
    [][/\ \A h \in StoredHashes(objects) :
              h \in StoredHashes(objects') /\ Entry(objects', h) = Entry(objects, h)
       /\ (call'.op = "hash-object" /\ call'.write /\ ret'.exc = "none") =>
              /\ StoredHashes(objects') = StoredHashes(objects) \cup {ret'.val}
              /\ \A e \in hist :
                     e.obj = Deserialize(call'.fmt, call'.data).val => e.sha = ret'.val]_vars

\* a persisting write has returned, into a store that holds another object too
C7_Witness ==
    /\ call.op = "hash-object" /\ call.write /\ ret.exc = "none"
    /\ ret.val \in StoredHashes(objects)
    /\ Cardinality(StoredHashes(objects)) >= 2

\* C8: every blob that has been written with persistence reads back, under the
\* hash that write returned, as a blob with the same data, whatever has been
\* written since.
C8_BlobReadBack ==
    \A e \in hist : e.obj.fmt = B_blob => object_read(objects, e.sha) = Ok(GitBlob(e.obj.blobdata))

\* the empty blob has been written, and another object as well
C8_Witness ==
    \E e \in hist :
        /\ e.obj.fmt = B_blob /\ e.obj.blobdata = <<>>
        /\ \E f \in hist : f.sha # e.sha
        /\ object_read(objects, e.sha) = Ok(GitBlob(<<>>))

\* C10: every hash returned by object_write, by ref_resolve and by object_find
\* is a string of exactly 40 lowercase hexadecimal characters.
C10_ReturnedHashes ==
    /\ (call.op = "hash-object" /\ ret.exc = "none") => IsHash(ret.val)
    /\ (call.op = "ref_resolve" /\ ret.exc = "none") => IsHash(ret.val)
    /\ (call.op = "object_find" /\ ret.exc = "none" /\ ret.val # None) => IsHash(ret.val)

\* C11: a dry-run object_write (hash-object without -w) returns what a persisting
\* write of the same object returns, the hash every earlier persisting write of
\* that object returned, and leaves the object store as it was: no bucket is
\* created, no entry is added or modified.
C11_DryRun ==
    [][(call'.op = "hash-object" /\ ~call'.write) =>
          /\ objects' = objects
          /\ ret' = object_hash(objects, call'.data, call'.fmt, TRUE).ret
          /\ ret'.exc = "none" =>
                 \A e \in hist :
                     e.obj = Deserialize(call'.fmt, call'.data).val => e.sha = ret'.val]_vars

\* a dry run has returned the hash of an object that the store, which holds
\* another object, does not hold
C11_Witness ==
    /\ call.op = "hash-object" /\ ~call.write /\ ret.exc = "none"
    /\ ret.val \notin StoredHashes(objects)
    /\ Slice(ret.val, 0, PREFIX_LEN) \notin DOMAIN objects
    /\ objects # <<>>

====
